---- MODULE Spec2Model ----
(***************************************************************************)
(* A model of the simple-arbitrage searcher: the constant-product pricer   *)
(* (UniswappyV2EthPair.ts), the opportunity scan and the submission        *)
(* pipeline (Arbitrage.ts) and the per-block handler (index.ts).           *)
(*                                                                         *)
(* Amounts are BigNumber values in the program (arbitrary precision); the  *)
(* model keeps them as integers and scales the base-asset unit ETHER down. *)
(* The one product that outgrows 32 bits, the numerator of getAmountOut,   *)
(* is divided exactly without being formed (MulDivRem).                    *)
(***************************************************************************)
EXTENDS Integers, Sequences, FiniteSets, TLC

VARIABLES
    tokenBalances,  \* every market's _tokenBalances, with the refresh that wrote it
    lastBlock,      \* the last block number the provider emitted
    pc,             \* per block handler: the await it is suspended at, or how it ended
    scanBatches,    \* per handler: the refreshes whose reserves its scan read
    opps,           \* per handler: bestCrossedMarkets, as evaluateMarkets returned it
    idx,            \* per handler: the position of takeCrossedMarkets' loop
    built,          \* per handler: the invocation built for the current candidate
    gateLog,        \* per handler: the gates each candidate went through
    simCall,        \* per handler: the simulate request
    sends,          \* per handler: the sendRawBundle requests
    err,            \* per handler: what takeCrossedMarkets threw
    pricerIn,       \* the pricer's arguments
    pricerOut,      \* the pricer's result
    scanRes,        \* the reserves one call of evaluateMarkets reads
    scanOut,        \* what that call computed
    rewardIn,       \* a profit and the reward percentage takeCrossedMarkets is given
    rewardOut,      \* the minerReward computed from them
    marketIn,       \* the arguments of one call of a market's method
    marketOut,      \* what that call returned, or that it threw
    searchRes,      \* the reserves of a scan whose index holds three markets of an asset
    searchOut       \* what getBestCrossedMarket did for that asset

sysVars == <<tokenBalances, lastBlock, pc, scanBatches, opps, idx, built,
             gateLog, simCall, sends, err>>
pricerVars == <<pricerIn, pricerOut>>
scanVars == <<scanRes, scanOut>>
rewardVars == <<rewardIn, rewardOut>>
marketVars == <<marketIn, marketOut>>
searchVars == <<searchRes, searchOut>>
pureVars == <<pricerIn, pricerOut, scanRes, scanOut, rewardIn, rewardOut,
              marketIn, marketOut, searchRes, searchOut>>
vars == <<tokenBalances, lastBlock, pc, scanBatches, opps, idx, built,
          gateLog, simCall, sends, err, pricerIn, pricerOut, scanRes, scanOut,
          rewardIn, rewardOut, marketIn, marketOut, searchRes, searchOut>>

(***************************************************************************)
(* Bounds of the model.                                                    *)
(***************************************************************************)
\* one base-asset unit (10^18 in the program), scaled
ETHER == 100
\* the block numbers whose 'block' event the model delivers: 1..MaxBlock
MaxBlock == 2
\* the pricer's amounts are drawn from 0..MaxAmount, its reserves from
\* 0..MaxAmount and MaxAmount * MaxAmount
MaxAmount == 12

(***************************************************************************)
(* Program constants.                                                      *)
(***************************************************************************)
\* Arbitrage.ts:265  estimateGas.gt(1400000)
GasCeiling == 1400000
\* Arbitrage.ts:269  estimateGas.mul(2)
GasLimitFactor == 2
\* UniswappyV2EthPair.ts:234  amountIn.mul(997)
FeeMul == 997
\* UniswappyV2EthPair.ts:236  reserveIn.mul(1000)
FeeDen == 1000
\* addresses.ts: WETH_ADDRESS, the base asset
WETH_ADDRESS == 0
\* index.ts:17  the address of the bundle executor contract
BUNDLE_EXECUTOR_ADDRESS == 99
\* index.ts:23  MINER_REWARD_PERCENTAGE
MINER_REWARD_PERCENTAGE == 80
\* Arbitrage.ts:255  the gas limit the invocation is populated with
PopulatedGasLimit == 1000000

(***************************************************************************)
(* BigNumber arithmetic.                                                   *)
(***************************************************************************)
Abs(x) == IF x < 0 THEN 0 - x ELSE x

\* BigNumber.div: truncates toward zero.  With b = 0 the program throws and
\* there is no quotient: the callers test for it (getAmountInThrows,
\* getAmountOutThrows) and never use the 0 written here
BNDiv(a, b) ==
    IF b = 0 THEN 0
    ELSE IF (a >= 0 /\ b > 0) \/ (a <= 0 /\ b < 0)
    THEN Abs(a) \div Abs(b)
    ELSE 0 - (Abs(a) \div Abs(b))

\* x.mul(y) divided by d with its remainder, for x, y >= 0 and d > 0: the
\* product is exact in the program whatever its size; here it is taken one
\* binary digit of y at a time, so that no intermediate value leaves 32 bits
MulDivStep(qr, x, bit, d) ==
    << 2 * qr[1] + ((2 * qr[2] + x * bit) \div d), (2 * qr[2] + x * bit) % d >>

RECURSIVE MulDivRem(_, _, _)
MulDivRem(x, y, d) ==
    IF y = 0 THEN <<0, 0>>
    ELSE MulDivStep(MulDivRem(x, y \div 2, d), x, y % 2, d)

\* x.mul(y).div(d): exact product, quotient truncated toward zero; d = 0 as in
\* BNDiv
BNMulDiv(x, y, d) ==
    LET q == MulDivRem(Abs(x), Abs(y), Abs(d))[1]
    IN  IF d = 0 THEN 0
        ELSE IF ((x < 0) = (y < 0)) = (d > 0) THEN q ELSE 0 - q

(***************************************************************************)
(* The pricer.                                                             *)
(***************************************************************************)
\* getAmountOut without the 0.3% fee
getAmountOutNoFee(reserveIn, reserveOut, amountIn) ==
    LET amountInWithFee == amountIn * FeeDen
        denominator == reserveIn * FeeDen + amountInWithFee
    IN  BNMulDiv(amountInWithFee, reserveOut, denominator)

\* getAmountOut with the quotient rounded up
getAmountOutRoundUp(reserveIn, reserveOut, amountIn) ==
    LET amountInWithFee == amountIn * FeeMul
        denominator == reserveIn * FeeDen + amountInWithFee
    IN  BNMulDiv(amountInWithFee, reserveOut, denominator) + 1

\* getAmountOut at the spot price, without the amount in its denominator
getAmountOutNoImpact(reserveIn, reserveOut, amountIn) ==
    LET amountInWithFee == amountIn * FeeMul
        denominator == reserveIn * FeeDen
    IN  BNMulDiv(amountInWithFee, reserveOut, denominator)

\* amountInWithFee.mul(reserveOut).div(denominator)
getAmountOut(reserveIn, reserveOut, amountIn) ==
    LET amountInWithFee == amountIn * FeeMul
        denominator == reserveIn * FeeDen + amountInWithFee
    IN  BNMulDiv(amountInWithFee, reserveOut, denominator)

\* numerator.div(denominator) throws when the denominator is zero
getAmountOutThrows(reserveIn, reserveOut, amountIn) ==
    reserveIn * FeeDen + amountIn * FeeMul = 0

\* getAmountIn without the 0.3% fee
getAmountInNoFee(reserveIn, reserveOut, amountOut) ==
    LET numerator == reserveIn * amountOut
        denominator == reserveOut - amountOut
    IN  BNDiv(numerator, denominator) + 1

\* getAmountIn without the final add(1)
getAmountInNoRoundUp(reserveIn, reserveOut, amountOut) ==
    LET numerator == reserveIn * amountOut * FeeDen
        denominator == (reserveOut - amountOut) * FeeMul
    IN  BNDiv(numerator, denominator)

getAmountIn(reserveIn, reserveOut, amountOut) ==
    LET numerator == reserveIn * amountOut * FeeDen
        denominator == (reserveOut - amountOut) * FeeMul
    IN  BNDiv(numerator, denominator) + 1

getAmountInThrows(reserveIn, reserveOut, amountOut) ==
    (reserveOut - amountOut) * FeeMul = 0

(***************************************************************************)
(* The markets found at start-up.  A market's address is its index in      *)
(* allMarketPairs; tokens are its two assets in the pair's own order.  The *)
(* last market holds less WETH than the liquidity floor at start-up: it is *)
(* refreshed with the others and is not in the index.                      *)
(***************************************************************************)
allMarketPairs ==
    << [tokens |-> <<WETH_ADDRESS, 1>>],
       [tokens |-> <<1, WETH_ADDRESS>>],
       [tokens |-> <<WETH_ADDRESS, 2>>],
       [tokens |-> <<2, WETH_ADDRESS>>],
       [tokens |-> <<WETH_ADDRESS, 1>>] >>

Markets == DOMAIN allMarketPairs

\* the key groupBy files a pair under: its non-WETH token
TokenOf(m) ==
    IF allMarketPairs[m].tokens[1] = WETH_ADDRESS
    THEN allMarketPairs[m].tokens[2]
    ELSE allMarketPairs[m].tokens[1]

\* what getReservesByPairs can answer: for each state of the chain, the two
\* reserves of every pair, in the pair's token order and in the order of
\* allMarketPairs
ChainReserves ==
    << << <<200, 2000>>, <<2000, 400>>, <<300, 1500>>, <<1500, 600>>, <<50, 500>> >>,
       << <<400, 2000>>, <<2000, 200>>, <<300, 1500>>, <<1500, 300>>, <<50, 500>> >>,
       << <<200, 2000>>, <<2000, 200>>, <<300, 1500>>, <<1500, 300>>, <<50, 500>> >>,
       << <<50, 2000>>, <<2000, 400>>, <<300, 1500>>, <<1200, 300>>, <<50, 500>> >> >>

ChainStates == DOMAIN ChainReserves

\* the chain state the start-up refresh read
InitialChainState == 3

(***************************************************************************)
(* Market: balances, quotes.  res is the _tokenBalances of every market:   *)
(* res[m] holds the two balances in the order of the market's tokens.      *)
(***************************************************************************)
HasToken(m, tokenAddress) ==
    \E k \in 1..2 : allMarketPairs[m].tokens[k] = tokenAddress

getBalance(res, m, tokenAddress) ==
    IF allMarketPairs[m].tokens[1] = tokenAddress THEN res[m][1] ELSE res[m][2]

getTokensIn(res, m, tokenIn, tokenOut, amountOut) ==
    getAmountIn(getBalance(res, m, tokenIn), getBalance(res, m, tokenOut), amountOut)

getTokensOut(res, m, tokenIn, tokenOut, amountIn) ==
    getAmountOut(getBalance(res, m, tokenIn), getBalance(res, m, tokenOut), amountIn)

\* a quote reads _tokenBalances[token], undefined for a token the market does
\* not hold, and the pricer throws on an undefined reserve
getTokensInThrows(res, m, tokenIn, tokenOut, amountOut) ==
    \/ ~HasToken(m, tokenIn)
    \/ ~HasToken(m, tokenOut)
    \/ getAmountInThrows(getBalance(res, m, tokenIn), getBalance(res, m, tokenOut), amountOut)

getTokensOutThrows(res, m, tokenIn, tokenOut, amountIn) ==
    \/ ~HasToken(m, tokenIn)
    \/ ~HasToken(m, tokenOut)
    \/ getAmountOutThrows(getBalance(res, m, tokenIn), getBalance(res, m, tokenOut), amountIn)

\* lines 42-47: the two checks of prepareReceive
prepareReceiveThrows(m, tokenAddress, amountIn) ==
    \/ ~HasToken(m, tokenAddress)
    \/ ~(amountIn > 0)

\* line 49: no preparation necessary
prepareReceive(m, tokenAddress, amountIn) == << >>

\* zipObject(tokens, balances), stored unless equal to what is stored
setReservesViaOrderedBalances(old, balances) ==
    IF old # balances THEN balances ELSE old

(***************************************************************************)
(* The market index, built once at start-up from the reserves read then.   *)
(***************************************************************************)
RECURSIVE SelectMarkets(_, _, _)
SelectMarkets(res, k, tokenAddress) ==
    IF k > Len(allMarketPairs) THEN << >>
    ELSE IF getBalance(res, k, WETH_ADDRESS) > ETHER
            /\ (tokenAddress = WETH_ADDRESS \/ TokenOf(k) = tokenAddress)
         THEN <<k>> \o SelectMarkets(res, k + 1, tokenAddress)
         ELSE SelectMarkets(res, k + 1, tokenAddress)

\* the keys of the grouped object, in the order groupBy created them
RECURSIVE KeyOrder(_, _)
KeyOrder(ms, seen) ==
    IF ms = << >> THEN << >>
    ELSE IF TokenOf(Head(ms)) \in seen
         THEN KeyOrder(Tail(ms), seen)
         ELSE <<TokenOf(Head(ms))>> \o KeyOrder(Tail(ms), seen \cup {TokenOf(Head(ms))})

getUniswapMarketsByToken(res) ==
    LET kept == SelectMarkets(res, 1, WETH_ADDRESS)
        keys == KeyOrder(kept, {})
    IN  [keys |-> keys,
         markets |-> [t \in {keys[i] : i \in DOMAIN keys} |-> SelectMarkets(res, 1, t)]]

marketsByToken == getUniswapMarketsByToken(ChainReserves[InitialChainState])

\* the markets of the index the scans read
IndexMarkets ==
    UNION {{marketsByToken.markets[t][k] : k \in DOMAIN marketsByToken.markets[t]} :
           t \in DOMAIN marketsByToken.markets}

(***************************************************************************)
(* The volume search.                                                      *)
(***************************************************************************)
\* the ladder with one more volume at its end
TEST_VOLUMES_Longer ==
    << BNDiv(ETHER, 100), BNDiv(ETHER, 10), BNDiv(ETHER, 6), BNDiv(ETHER, 4),
       BNDiv(ETHER, 2), BNDiv(ETHER, 1), ETHER * 2, ETHER * 5, ETHER * 10, ETHER * 20 >>

TEST_VOLUMES ==
    << BNDiv(ETHER, 100), BNDiv(ETHER, 10), BNDiv(ETHER, 6), BNDiv(ETHER, 4),
       BNDiv(ETHER, 2), BNDiv(ETHER, 1), ETHER * 2, ETHER * 5, ETHER * 10 >>

\* the proceeds of the round trip, the size paid not taken off
RoundTripProceeds(res, sellToMarket, buyFromMarket, tokenAddress, size) ==
    LET tokensOutFromBuyingSize ==
            getTokensOut(res, buyFromMarket, WETH_ADDRESS, tokenAddress, size)
    IN  getTokensOut(res, sellToMarket, tokenAddress, WETH_ADDRESS, tokensOutFromBuyingSize)

\* the profit of buying with size on buyFromMarket and selling on sellToMarket
RoundTripProfit(res, sellToMarket, buyFromMarket, tokenAddress, size) ==
    LET tokensOutFromBuyingSize ==
            getTokensOut(res, buyFromMarket, WETH_ADDRESS, tokenAddress, size)
        proceedsFromSellingTokens ==
            getTokensOut(res, sellToMarket, tokenAddress, WETH_ADDRESS, tokensOutFromBuyingSize)
    IN  proceedsFromSellingTokens - size

\* the record with the two markets of the pair taken in the other order
CrossedMarketDetailsSwapped(profit, volume, tokenAddress, buyFromMarket, sellToMarket) ==
    [profit |-> profit, volume |-> volume, tokenAddress |-> tokenAddress,
     buyFromMarket |-> sellToMarket, sellToMarket |-> buyFromMarket]

CrossedMarketDetails(profit, volume, tokenAddress, buyFromMarket, sellToMarket) ==
    [profit |-> profit, volume |-> volume, tokenAddress |-> tokenAddress,
     buyFromMarket |-> buyFromMarket, sellToMarket |-> sellToMarket]

\* the loop over TEST_VOLUMES for one crossed pair, from the k-th volume on;
\* best is << >> (undefined) or <<the best so far>>
RECURSIVE LadderFrom(_, _, _, _, _, _)
LadderFrom(res, sellToMarket, buyFromMarket, tokenAddress, k, best) ==
    IF k > Len(TEST_VOLUMES) THEN best
    ELSE
      LET size == TEST_VOLUMES[k]
          profit == RoundTripProfit(res, sellToMarket, buyFromMarket, tokenAddress, size)
      IN  IF best # << >> /\ profit < best[1].profit
          THEN LET trySize == BNDiv(size + best[1].volume, 2)
                   tryProfit == RoundTripProfit(res, sellToMarket, buyFromMarket,
                                                tokenAddress, trySize)
               IN  IF tryProfit > best[1].profit
                   THEN << CrossedMarketDetails(tryProfit, trySize, tokenAddress,
                                                buyFromMarket, sellToMarket) >>
                   ELSE best
          ELSE LadderFrom(res, sellToMarket, buyFromMarket, tokenAddress, k + 1,
                          << CrossedMarketDetails(profit, size, tokenAddress,
                                                  buyFromMarket, sellToMarket) >>)

\* the loop breaking at the first lower profit without its extra try
RECURSIVE LadderStepsWithoutTry(_, _, _, _, _, _)
LadderStepsWithoutTry(res, sellToMarket, buyFromMarket, tokenAddress, k, best) ==
    IF k > Len(TEST_VOLUMES) THEN << >>
    ELSE
      LET size == TEST_VOLUMES[k]
          profit == RoundTripProfit(res, sellToMarket, buyFromMarket, tokenAddress, size)
      IN  IF best # << >> /\ profit < best[1].profit
          THEN << [size |-> size, profit |-> profit, ladder |-> TRUE, before |-> best] >>
          ELSE << [size |-> size, profit |-> profit, ladder |-> TRUE, before |-> best] >>
               \o LadderStepsWithoutTry(res, sellToMarket, buyFromMarket, tokenAddress,
                                        k + 1,
                                        << CrossedMarketDetails(profit, size, tokenAddress,
                                                                buyFromMarket, sellToMarket) >>)

\* the volumes the same loop evaluates, in the order it evaluates them: each
\* with its profit, whether it is a volume of TEST_VOLUMES or the extra try, and
\* bestCrossedMarket as it stood before
RECURSIVE LadderSteps(_, _, _, _, _, _)
LadderSteps(res, sellToMarket, buyFromMarket, tokenAddress, k, best) ==
    IF k > Len(TEST_VOLUMES) THEN << >>
    ELSE
      LET size == TEST_VOLUMES[k]
          profit == RoundTripProfit(res, sellToMarket, buyFromMarket, tokenAddress, size)
      IN  IF best # << >> /\ profit < best[1].profit
          THEN LET trySize == BNDiv(size + best[1].volume, 2)
                   tryProfit == RoundTripProfit(res, sellToMarket, buyFromMarket,
                                                tokenAddress, trySize)
               IN  << [size |-> size, profit |-> profit, ladder |-> TRUE, before |-> best],
                      [size |-> trySize, profit |-> tryProfit, ladder |-> FALSE,
                       before |-> best] >>
          ELSE << [size |-> size, profit |-> profit, ladder |-> TRUE, before |-> best] >>
               \o LadderSteps(res, sellToMarket, buyFromMarket, tokenAddress, k + 1,
                              << CrossedMarketDetails(profit, size, tokenAddress,
                                                      buyFromMarket, sellToMarket) >>)

\* the loop over the crossed pairs, from the j-th pair on
RECURSIVE BestFrom(_, _, _, _, _)
BestFrom(res, crossedMarkets, tokenAddress, j, best) ==
    IF j > Len(crossedMarkets) THEN best
    ELSE BestFrom(res, crossedMarkets, tokenAddress, j + 1,
                  LadderFrom(res, crossedMarkets[j][1], crossedMarkets[j][2],
                             tokenAddress, 1, best))

getBestCrossedMarket(res, crossedMarkets, tokenAddress) ==
    BestFrom(res, crossedMarkets, tokenAddress, 1, << >>)

\* the i-th iteration of the loop over the crossed pairs: bestCrossedMarket
\* before it, the volumes it evaluates, bestCrossedMarket after it
LadderRun(res, crossedMarkets, tokenAddress, i) ==
    LET before == BestFrom(res, SubSeq(crossedMarkets, 1, i - 1), tokenAddress, 1, << >>)
    IN  [pair |-> crossedMarkets[i],
         before |-> before,
         steps |-> LadderSteps(res, crossedMarkets[i][1], crossedMarkets[i][2],
                               tokenAddress, 1, before),
         after |-> LadderFrom(res, crossedMarkets[i][1], crossedMarkets[i][2],
                              tokenAddress, 1, before)]

(***************************************************************************)
(* The scan.                                                               *)
(***************************************************************************)
buyTokenPrice(res, m, tokenAddress) ==
    getTokensIn(res, m, tokenAddress, WETH_ADDRESS, BNDiv(ETHER, 100))

sellTokenPrice(res, m, tokenAddress) ==
    getTokensOut(res, m, WETH_ADDRESS, tokenAddress, BNDiv(ETHER, 100))

\* the test of line 199 with the two markets' roles exchanged
CrossesSwapped(res, pricedMarket, pm, tokenAddress) ==
    sellTokenPrice(res, pricedMarket, tokenAddress) > buyTokenPrice(res, pm, tokenAddress)

\* line 199: pm.sellTokenPrice.gt(pricedMarket.buyTokenPrice)
Crosses(res, pricedMarket, pm, tokenAddress) ==
    sellTokenPrice(res, pm, tokenAddress) > buyTokenPrice(res, pricedMarket, tokenAddress)

\* the pairs [pricedMarket, pm] pushed by the two nested loops, in push order;
\* p counts the iterations of the inner loop
RECURSIVE CrossedFrom(_, _, _, _)
CrossedFrom(res, markets, tokenAddress, p) ==
    IF p >= Len(markets) * Len(markets) THEN << >>
    ELSE
      LET pricedMarket == markets[(p \div Len(markets)) + 1]
          pm == markets[(p % Len(markets)) + 1]
          rest == CrossedFrom(res, markets, tokenAddress, p + 1)
      IN  IF Crosses(res, pricedMarket, pm, tokenAddress)
          THEN << <<pricedMarket, pm>> >> \o rest
          ELSE rest

\* Array.prototype.sort with the comparator of evaluateMarkets: descending
\* profit, equal profits keep their order
RECURSIVE InsertByProfit(_, _)
InsertByProfit(sorted, x) ==
    IF sorted = << >> THEN <<x>>
    ELSE IF Head(sorted).profit < x.profit
         THEN <<x>> \o sorted
         ELSE <<Head(sorted)>> \o InsertByProfit(Tail(sorted), x)

RECURSIVE SortByProfit(_)
SortByProfit(xs) ==
    IF xs = << >> THEN << >>
    ELSE InsertByProfit(SortByProfit(SubSeq(xs, 1, Len(xs) - 1)), xs[Len(xs)])

\* the threshold test satisfied at the threshold too
AcceptedAtThreshold(profit) == profit >= BNDiv(ETHER, 1000)

\* line 210: bestCrossedMarket.profit.gt(ETHER.div(1000))
Accepted(profit) == profit > BNDiv(ETHER, 1000)

\* the loop over the index's keys, from the k-th key on
RECURSIVE BestCrossedFrom(_, _, _)
BestCrossedFrom(res, index, k) ==
    IF k > Len(index.keys) THEN << >>
    ELSE
      LET tokenAddress == index.keys[k]
          crossedMarkets == CrossedFrom(res, index.markets[tokenAddress], tokenAddress, 0)
          bestCrossedMarket == getBestCrossedMarket(res, crossedMarkets, tokenAddress)
          rest == BestCrossedFrom(res, index, k + 1)
      IN  IF bestCrossedMarket # << >> /\ Accepted(bestCrossedMarket[1].profit)
          THEN bestCrossedMarket \o rest
          ELSE rest

\* evaluateMarkets without its final sort
evaluateMarketsUnsorted(res, index) == BestCrossedFrom(res, index, 1)

evaluateMarkets(res, index) == SortByProfit(BestCrossedFrom(res, index, 1))

(***************************************************************************)
(* Reserve refresh.                                                        *)
(***************************************************************************)
\* the balances of every market, as the quotes read them
Balances(tb) == [m \in Markets |-> tb[m].bal]

\* updateReserves left after its first store
updateReservesTorn(tb, answer, batch) ==
    [m \in Markets |->
        IF m = 1
        THEN [bal |-> setReservesViaOrderedBalances(tb[m].bal, answer[m]), batch |-> batch]
        ELSE tb[m]]

\* the loop of updateReserves over allMarketPairs, run to its end without a
\* suspension; answer is what getReservesByPairs returned, batch names the call
updateReserves(tb, answer, batch) ==
    [m \in Markets |->
        [bal |-> setReservesViaOrderedBalances(tb[m].bal, answer[m]),
         batch |-> batch]]

(***************************************************************************)
(* Building the invocation of one opportunity.                             *)
(***************************************************************************)
\* the swap(amount0Out, amount1Out, to, data) call sellTokens encodes
sellTokens(res, m, tokenIn, amountIn, recipient) ==
    IF tokenIn = allMarketPairs[m].tokens[1]
    THEN [amount0Out |-> 0,
          amount1Out |-> getTokensOut(res, m, tokenIn, allMarketPairs[m].tokens[2], amountIn),
          to |-> recipient]
    ELSE [amount0Out |-> getTokensOut(res, m, tokenIn, allMarketPairs[m].tokens[1], amountIn),
          amount1Out |-> 0,
          to |-> recipient]

sellTokensThrows(m, tokenIn) == ~HasToken(m, tokenIn)

sellTokensToNextMarket(res, m, tokenIn, amountIn, ethMarket) ==
    [data |-> << sellTokens(res, m, tokenIn, amountIn, ethMarket) >>,
     targets |-> <<m>>]

\* the payment rounded up
minerRewardRoundedUp(profit, minerRewardPercentage) ==
    BNDiv(profit * minerRewardPercentage + 99, 100)

minerReward(profit, minerRewardPercentage) ==
    BNDiv(profit * minerRewardPercentage, 100)

\* the invocation with the sell-to market's call put first
BuildTransactionSellFirst(res, bestCrossedMarket) ==
    LET buyCalls == sellTokensToNextMarket(res, bestCrossedMarket.buyFromMarket,
                        WETH_ADDRESS, bestCrossedMarket.volume,
                        bestCrossedMarket.sellToMarket)
        inter == getTokensOut(res, bestCrossedMarket.buyFromMarket, WETH_ADDRESS,
                        bestCrossedMarket.tokenAddress, bestCrossedMarket.volume)
        sellCallData == sellTokens(res, bestCrossedMarket.sellToMarket,
                        bestCrossedMarket.tokenAddress, inter, BUNDLE_EXECUTOR_ADDRESS)
    IN  [volume |-> bestCrossedMarket.volume,
         minerReward |-> minerReward(bestCrossedMarket.profit, MINER_REWARD_PERCENTAGE),
         targets |-> <<bestCrossedMarket.sellToMarket>> \o buyCalls.targets,
         payloads |-> <<sellCallData>> \o buyCalls.data,
         gasLimit |-> PopulatedGasLimit,
         inter |-> inter]

\* lines 228-256 of takeCrossedMarkets for one opportunity; inter is kept beside
\* the invocation's own fields
BuildTransaction(res, bestCrossedMarket) ==
    LET buyCalls == sellTokensToNextMarket(res, bestCrossedMarket.buyFromMarket,
                        WETH_ADDRESS, bestCrossedMarket.volume,
                        bestCrossedMarket.sellToMarket)
        inter == getTokensOut(res, bestCrossedMarket.buyFromMarket, WETH_ADDRESS,
                        bestCrossedMarket.tokenAddress, bestCrossedMarket.volume)
        sellCallData == sellTokens(res, bestCrossedMarket.sellToMarket,
                        bestCrossedMarket.tokenAddress, inter, BUNDLE_EXECUTOR_ADDRESS)
    IN  [volume |-> bestCrossedMarket.volume,
         minerReward |-> minerReward(bestCrossedMarket.profit, MINER_REWARD_PERCENTAGE),
         targets |-> buyCalls.targets \o <<bestCrossedMarket.sellToMarket>>,
         payloads |-> buyCalls.data \o <<sellCallData>>,
         gasLimit |-> PopulatedGasLimit,
         inter |-> inter]

(***************************************************************************)
(* The gates of takeCrossedMarkets.                                        *)
(***************************************************************************)
\* what estimateGas can answer
GasEstimates == {GasCeiling \div 2, GasCeiling, GasCeiling + 1}

\* what simulate can answer: whether the response has an 'error' field, whether
\* its firstRevert is defined
SimulationAnswers ==
    { [error |-> FALSE, firstRevert |-> FALSE],
      [error |-> TRUE, firstRevert |-> FALSE],
      [error |-> FALSE, firstRevert |-> TRUE] }

\* the ceiling test off by one
EstimateRejectedAboveNext(estimateGas) == estimateGas > GasCeiling + 1

\* line 265
EstimateRejected(estimateGas) == estimateGas > GasCeiling

\* the estimate taken as the gas limit, without a margin
GasLimitAtEstimate(estimateGas) == estimateGas

\* line 269
GasLimitFor(estimateGas) == estimateGas * GasLimitFactor

\* the test of line 298 without its firstRevert half
SimulationRejectedOnErrorOnly(simulation) == simulation.error

\* line 298
SimulationRejected(simulation) == simulation.error \/ simulation.firstRevert

\* one target block only
TargetBlocksNextOnly(blockNumber) == <<blockNumber + 1>>

\* line 308
TargetBlocks(blockNumber) == <<blockNumber + 1, blockNumber + 2>>

\* the for-of loop of line 226: where it starts, where it goes on
FirstCandidate == 1

\* a loop that tries the rejected candidate again
NextCandidateRetry(i) == i

\* a loop that passes over a candidate
NextCandidateSkip(i) == i + 2

NextCandidate(i) == i + 1

(***************************************************************************)
(* The block handlers.  Handler b is the run of the 'block' callback for   *)
(* block number b.  Other handlers run while a handler awaits a network    *)
(* request (getReservesByPairs, estimateGas, signBundle, simulate,         *)
(* sendRawBundle) and while it awaits the return of updateReserves; what   *)
(* lies between two of these awaits is one step.  With the reserves of     *)
(* ChainReserves no quote of a scan or of a build divides by zero.         *)
(***************************************************************************)
Blocks == 1..MaxBlock

NoTransaction == << >>

\* the record of one call of evaluateMarkets: whether a quote threw, and
\* otherwise, for each key of the index, the crossedMarkets pushed and what
\* getBestCrossedMarket returned for them, and the list returned
NoScan == [done |-> FALSE, threw |-> FALSE, crossed |-> << >>, best |-> << >>,
           list |-> << >>]

\* the record of the pricer's calls: which, whether one threw, the result of
\* the first call and the result of the last
NoQuote == [fn |-> "none", threw |-> FALSE, first |-> 0, value |-> 0]

\* the reward before line 249 has computed it
NoReward == [done |-> FALSE, minerReward |-> 0]

\* a market method before it is called, and its arguments then
NoCall == [fn |-> "none", threw |-> FALSE, value |-> << >>]

NoArguments == [market |-> 1, tokenIn |-> WETH_ADDRESS, tokenOut |-> WETH_ADDRESS,
                amount |-> 0]

\* getBestCrossedMarket before it is called: the crossed pairs of the asset, what
\* the call returns for them, what it returns for each pair alone and for the
\* pairs in the opposite order, and its iterations
NoSearch == [done |-> FALSE, threw |-> FALSE, crossed |-> << >>, best |-> << >>,
             alone |-> << >>, reversed |-> << >>, runs |-> << >>]

\* the record of one candidate's gates: the estimate (or that estimateGas threw)
\* and the simulation's answer (or that simulate threw)
NoSimulation == [asked |-> FALSE, threw |-> FALSE, error |-> FALSE, firstRevert |-> FALSE]

Estimated(cand, threw, estimateGas) ==
    [cand |-> cand, estThrew |-> threw, estimateGas |-> estimateGas, sim |-> NoSimulation]

Simulated(threw, simulation) ==
    [asked |-> TRUE, threw |-> threw, error |-> simulation.error,
     firstRevert |-> simulation.firstRevert]

Init ==
    /\ tokenBalances = [m \in Markets |->
                          [bal |-> ChainReserves[InitialChainState][m], batch |-> 0]]
    /\ lastBlock \in 0..(MaxBlock - 1)
    /\ pc = [b \in Blocks |-> "idle"]
    /\ scanBatches = [b \in Blocks |-> {}]
    /\ opps = [b \in Blocks |-> << >>]
    /\ idx = [b \in Blocks |-> 0]
    /\ built = [b \in Blocks |-> NoTransaction]
    /\ gateLog = [b \in Blocks |-> << >>]
    /\ simCall = [b \in Blocks |-> << >>]
    /\ sends = [b \in Blocks |-> << >>]
    /\ err = [b \in Blocks |-> "none"]
    /\ pricerIn = [reserveIn |-> 0, reserveOut |-> 0, amount |-> 0, amount2 |-> 0]
    /\ pricerOut = NoQuote
    /\ scanRes = ChainReserves[InitialChainState]
    /\ scanOut = NoScan
    /\ rewardIn = [profit |-> 0, minerRewardPercentage |-> MINER_REWARD_PERCENTAGE]
    /\ rewardOut = NoReward
    /\ marketIn = NoArguments
    /\ marketOut = NoCall
    /\ searchRes = ChainReserves[InitialChainState]
    /\ searchOut = NoSearch

\* takeCrossedMarkets is running (called, and neither returned nor thrown)
TakeInFlight(b) == pc[b] \in {"estimating", "signing", "simulating", "sending"}

\* the loop body from line 228 to the estimateGas request, for candidate i; past
\* the end of the list the loop is left and line 316 throws
EnterCandidate(b, i, list) ==
    IF i <= Len(list)
    THEN /\ idx' = [idx EXCEPT ![b] = i]
         /\ built' = [built EXCEPT ![b] = <<BuildTransaction(Balances(tokenBalances), list[i])>>]
         /\ pc' = [pc EXCEPT ![b] = "estimating"]
         /\ err' = err
    ELSE /\ idx' = [idx EXCEPT ![b] = i]
         /\ built' = [built EXCEPT ![b] = NoTransaction]
         /\ pc' = [pc EXCEPT ![b] = "failed"]
         /\ err' = [err EXCEPT ![b] = "No arbitrage submitted to relay"]

\* the provider emits 'block' b: the handler starts and updateReserves sends
\* getReservesByPairs
BlockEvent(b) ==
    /\ b = lastBlock + 1
    /\ pc[b] = "idle"
    /\ lastBlock' = b
    /\ pc' = [pc EXCEPT ![b] = "fetching"]
    /\ UNCHANGED <<tokenBalances, scanBatches, opps, idx, built, gateLog, simCall,
                   sends, err, pureVars>>

\* getReservesByPairs answers with the reserves of chain state s: the loop stores
\* them and updateReserves returns
ReservesReturn(b, s) ==
    /\ pc[b] = "fetching"
    /\ tokenBalances' = updateReserves(tokenBalances, ChainReserves[s], b)
    /\ pc' = [pc EXCEPT ![b] = "refreshed"]
    /\ UNCHANGED <<lastBlock, scanBatches, opps, idx, built, gateLog, simCall,
                   sends, err, pureVars>>

\* getReservesByPairs rejects: the handler ends with that rejection
ReservesFail(b) ==
    /\ pc[b] = "fetching"
    /\ pc' = [pc EXCEPT ![b] = "refreshFailed"]
    /\ UNCHANGED <<tokenBalances, lastBlock, scanBatches, opps, idx, built, gateLog,
                   simCall, sends, err, pureVars>>

\* the handler resumes after updateReserves: evaluateMarkets runs to its end,
\* and with a non-empty list takeCrossedMarkets is called and runs to its first
\* estimateGas request
ScanAndTake(b) ==
    /\ pc[b] = "refreshed"
    /\ LET bestCrossedMarkets == evaluateMarkets(Balances(tokenBalances), marketsByToken)
       IN  /\ scanBatches' = [scanBatches EXCEPT ![b] =
                  {tokenBalances[m].batch : m \in
                      UNION {{marketsByToken.markets[t][k] :
                                  k \in DOMAIN marketsByToken.markets[t]} :
                             t \in DOMAIN marketsByToken.markets}}]
           /\ opps' = [opps EXCEPT ![b] = bestCrossedMarkets]
           /\ IF bestCrossedMarkets = << >>
              THEN /\ pc' = [pc EXCEPT ![b] = "noCrossed"]
                   /\ UNCHANGED <<idx, built, err>>
              ELSE EnterCandidate(b, FirstCandidate, bestCrossedMarkets)
    /\ UNCHANGED <<tokenBalances, lastBlock, gateLog, simCall, sends, pureVars>>

\* estimateGas answers
EstimateReturn(b, estimateGas) ==
    /\ pc[b] = "estimating"
    /\ IF EstimateRejected(estimateGas)
       THEN /\ gateLog' = [gateLog EXCEPT ![b] =
                   Append(@, Estimated(idx[b], FALSE, estimateGas))]
            /\ EnterCandidate(b, NextCandidate(idx[b]), opps[b])
       ELSE /\ gateLog' = [gateLog EXCEPT ![b] =
                   Append(@, Estimated(idx[b], FALSE, estimateGas))]
            /\ built' = [built EXCEPT ![b] =
                   <<[built[b][1] EXCEPT !.gasLimit = GasLimitFor(estimateGas)]>>]
            /\ pc' = [pc EXCEPT ![b] = "signing"]
            /\ UNCHANGED <<idx, err>>
    /\ UNCHANGED <<tokenBalances, lastBlock, scanBatches, opps, simCall, sends, pureVars>>

\* estimateGas rejects: the catch of line 270 goes on with the next candidate
EstimateFail(b) ==
    /\ pc[b] = "estimating"
    /\ gateLog' = [gateLog EXCEPT ![b] = Append(@, Estimated(idx[b], TRUE, 0))]
    /\ EnterCandidate(b, NextCandidate(idx[b]), opps[b])
    /\ UNCHANGED <<tokenBalances, lastBlock, scanBatches, opps, simCall, sends, pureVars>>

\* signBundle resolves: simulate is requested for the next block
SignReturn(b) ==
    /\ pc[b] = "signing"
    /\ simCall' = [simCall EXCEPT ![b] =
           <<[signedBundle |-> built[b][1], cand |-> idx[b], blockNumber |-> b + 1]>>]
    /\ pc' = [pc EXCEPT ![b] = "simulating"]
    /\ UNCHANGED <<tokenBalances, lastBlock, scanBatches, opps, idx, built, gateLog,
                   sends, err, pureVars>>

\* signBundle rejects: nothing catches it, takeCrossedMarkets rejects
SignFail(b) ==
    /\ pc[b] = "signing"
    /\ pc' = [pc EXCEPT ![b] = "failed"]
    /\ err' = [err EXCEPT ![b] = "signBundle"]
    /\ UNCHANGED <<tokenBalances, lastBlock, scanBatches, opps, idx, built, gateLog,
                   simCall, sends, pureVars>>

\* the two sendRawBundle requests of line 308, both sent before Promise.all is
\* awaited
Submissions(signedBundle, cand, blockNumber) ==
    [k \in DOMAIN TargetBlocks(blockNumber) |->
        [signedBundle |-> signedBundle, cand |-> cand,
         targetBlockNumber |-> TargetBlocks(blockNumber)[k], status |-> "inflight"]]

\* simulate answers
SimulateReturn(b, simulation) ==
    /\ pc[b] = "simulating"
    /\ IF SimulationRejected(simulation)
       THEN /\ gateLog' = [gateLog EXCEPT ![b][Len(gateLog[b])].sim =
                   Simulated(FALSE, simulation)]
            /\ EnterCandidate(b, NextCandidate(idx[b]), opps[b])
            /\ UNCHANGED sends
       ELSE /\ gateLog' = [gateLog EXCEPT ![b][Len(gateLog[b])].sim =
                   Simulated(FALSE, simulation)]
            /\ sends' = [sends EXCEPT ![b] =
                   Submissions(simCall[b][1].signedBundle, idx[b], b)]
            /\ pc' = [pc EXCEPT ![b] = "sending"]
            /\ UNCHANGED <<idx, built, err>>
    /\ UNCHANGED <<tokenBalances, lastBlock, scanBatches, opps, simCall, pureVars>>

\* simulate rejects: nothing catches it, takeCrossedMarkets rejects
SimulateFail(b) ==
    /\ pc[b] = "simulating"
    /\ gateLog' = [gateLog EXCEPT ![b][Len(gateLog[b])].sim =
           Simulated(TRUE, [error |-> FALSE, firstRevert |-> FALSE])]
    /\ pc' = [pc EXCEPT ![b] = "failed"]
    /\ err' = [err EXCEPT ![b] = "simulate"]
    /\ UNCHANGED <<tokenBalances, lastBlock, scanBatches, opps, idx, built, simCall,
                   sends, pureVars>>

\* Promise.all over the submissions, as it stands when one of them settles:
\* rejected with the first rejection, fulfilled once all are fulfilled
PromiseAll(statuses) ==
    IF \E k \in DOMAIN statuses : statuses[k] = "fault" THEN "rejected"
    ELSE IF \A k \in DOMAIN statuses : statuses[k] = "ok" THEN "fulfilled"
    ELSE "pending"

\* submission k settles with outcome; while takeCrossedMarkets awaits
\* Promise.all it resumes when that settles
SendSettle(b, k, outcome) ==
    /\ k \in DOMAIN sends[b]
    /\ sends[b][k].status = "inflight"
    /\ sends' = [sends EXCEPT ![b][k].status = outcome]
    /\ LET all == PromiseAll([j \in DOMAIN sends[b] |-> sends'[b][j].status])
       IN  IF pc[b] = "sending" /\ all = "fulfilled"
           THEN /\ pc' = [pc EXCEPT ![b] = "done"]
                /\ err' = err
           ELSE IF pc[b] = "sending" /\ all = "rejected"
           THEN /\ pc' = [pc EXCEPT ![b] = "failed"]
                /\ err' = [err EXCEPT ![b] = "sendRawBundle"]
           ELSE UNCHANGED <<pc, err>>
    /\ UNCHANGED <<tokenBalances, lastBlock, scanBatches, opps, idx, built, gateLog,
                   simCall, pureVars>>

SendReturn(b, k) == SendSettle(b, k, "ok")

SendFail(b, k) == SendSettle(b, k, "fault")

(***************************************************************************)
(* The pricer on its own: arguments drawn from 0..MaxAmount, one quote.    *)
(***************************************************************************)
\* the reserves the pricer is called with: the small ones, and one large enough
\* for the fee to show in getAmountIn's quotient
PricerReserves == (0..MaxAmount) \cup {MaxAmount * MaxAmount}

PricerInputs ==
    [reserveIn : PricerReserves, reserveOut : PricerReserves, amount : 0..MaxAmount,
     amount2 : 0..MaxAmount]

Quoted(fn, first, value) == [fn |-> fn, threw |-> FALSE, first |-> first, value |-> value]

QuoteThrew(fn) == [fn |-> fn, threw |-> TRUE, first |-> 0, value |-> 0]

InitPricer ==
    /\ tokenBalances = [m \in Markets |->
                          [bal |-> ChainReserves[InitialChainState][m], batch |-> 0]]
    /\ lastBlock = 0
    /\ pc = [b \in Blocks |-> "idle"]
    /\ scanBatches = [b \in Blocks |-> {}]
    /\ opps = [b \in Blocks |-> << >>]
    /\ idx = [b \in Blocks |-> 0]
    /\ built = [b \in Blocks |-> NoTransaction]
    /\ gateLog = [b \in Blocks |-> << >>]
    /\ simCall = [b \in Blocks |-> << >>]
    /\ sends = [b \in Blocks |-> << >>]
    /\ err = [b \in Blocks |-> "none"]
    /\ pricerIn \in PricerInputs
    /\ pricerOut = NoQuote
    /\ scanRes = ChainReserves[InitialChainState]
    /\ scanOut = NoScan
    /\ rewardIn = [profit |-> 0, minerRewardPercentage |-> MINER_REWARD_PERCENTAGE]
    /\ rewardOut = NoReward
    /\ marketIn = NoArguments
    /\ marketOut = NoCall
    /\ searchRes = ChainReserves[InitialChainState]
    /\ searchOut = NoSearch

\* one call of getAmountOut
QuoteOutput ==
    /\ pricerOut = NoQuote
    /\ pricerOut' =
          LET out == getAmountOut(pricerIn.reserveIn, pricerIn.reserveOut, pricerIn.amount)
          IN  IF getAmountOutThrows(pricerIn.reserveIn, pricerIn.reserveOut, pricerIn.amount)
              THEN QuoteThrew("getAmountOut")
              ELSE Quoted("getAmountOut", out, out)
    /\ UNCHANGED <<pricerIn, sysVars, scanVars, rewardVars, marketVars, searchVars>>

\* one call of getAmountIn
QuoteInput ==
    /\ pricerOut = NoQuote
    /\ pricerOut' =
          LET in == getAmountIn(pricerIn.reserveIn, pricerIn.reserveOut, pricerIn.amount)
          IN  IF getAmountInThrows(pricerIn.reserveIn, pricerIn.reserveOut, pricerIn.amount)
              THEN QuoteThrew("getAmountIn")
              ELSE Quoted("getAmountIn", in, in)
    /\ UNCHANGED <<pricerIn, sysVars, scanVars, rewardVars, marketVars, searchVars>>

\* getAmountIn of what getAmountOut returned, on the same reserves
QuoteOutputThenInput ==
    /\ pricerOut = NoQuote
    /\ pricerOut' =
          LET out == getAmountOut(pricerIn.reserveIn, pricerIn.reserveOut, pricerIn.amount)
              back == getAmountIn(pricerIn.reserveIn, pricerIn.reserveOut, out)
          IN  IF getAmountOutThrows(pricerIn.reserveIn, pricerIn.reserveOut, pricerIn.amount)
              THEN QuoteThrew("getAmountOut;getAmountIn")
              ELSE IF getAmountInThrows(pricerIn.reserveIn, pricerIn.reserveOut, out)
              THEN QuoteThrew("getAmountOut;getAmountIn")
              ELSE Quoted("getAmountOut;getAmountIn", out, back)
    /\ UNCHANGED <<pricerIn, sysVars, scanVars, rewardVars, marketVars, searchVars>>

\* getAmountOut of what getAmountIn returned, on the same reserves
QuoteInputThenOutput ==
    /\ pricerOut = NoQuote
    /\ pricerOut' =
          LET in == getAmountIn(pricerIn.reserveIn, pricerIn.reserveOut, pricerIn.amount)
              back == getAmountOut(pricerIn.reserveIn, pricerIn.reserveOut, in)
          IN  IF getAmountInThrows(pricerIn.reserveIn, pricerIn.reserveOut, pricerIn.amount)
              THEN QuoteThrew("getAmountIn;getAmountOut")
              ELSE IF getAmountOutThrows(pricerIn.reserveIn, pricerIn.reserveOut, in)
              THEN QuoteThrew("getAmountIn;getAmountOut")
              ELSE Quoted("getAmountIn;getAmountOut", in, back)
    /\ UNCHANGED <<pricerIn, sysVars, scanVars, rewardVars, marketVars, searchVars>>

\* two calls of getAmountOut on the same reserves, for amount and for amount2
QuoteOutputTwice ==
    /\ pricerOut = NoQuote
    /\ pricerOut' =
          LET out1 == getAmountOut(pricerIn.reserveIn, pricerIn.reserveOut, pricerIn.amount)
              out2 == getAmountOut(pricerIn.reserveIn, pricerIn.reserveOut, pricerIn.amount2)
          IN  IF \/ getAmountOutThrows(pricerIn.reserveIn, pricerIn.reserveOut, pricerIn.amount)
                 \/ getAmountOutThrows(pricerIn.reserveIn, pricerIn.reserveOut, pricerIn.amount2)
              THEN QuoteThrew("getAmountOut;getAmountOut")
              ELSE Quoted("getAmountOut;getAmountOut", out1, out2)
    /\ UNCHANGED <<pricerIn, sysVars, scanVars, rewardVars, marketVars, searchVars>>

NextPricer ==
    \/ QuoteOutput
    \/ QuoteInput
    \/ QuoteOutputThenInput
    \/ QuoteInputThenOutput
    \/ QuoteOutputTwice

SpecPricer == InitPricer /\ [][NextPricer]_vars

(***************************************************************************)
(* evaluateMarkets on its own: one call, on the index built at start-up,   *)
(* after a refresh that stored any of ScanReserves.                        *)
(***************************************************************************)
\* one unit of a non-base asset in its smallest units: finer than ETHER, so that
\* the probe amount of WETH is worth several smallest units of the asset
TokenUnit == 20 * ETHER

\* what a market can hold after a refresh, as <<WETH, token>>: the two pools of
\* a hundred units, 100:100 and 100:80; two smaller pools at different prices;
\* two pools of a tenth of a unit of WETH at nearly the same price; a pool
\* drained of WETH below the probe amount; a pool holding exactly the probe
\* amount.  Token reserves are positive, so that the only quotes of a scan that
\* can divide by zero are the probes of getTokensIn.
ScanBalances ==
    { <<100 * ETHER, 100 * TokenUnit>>, <<100 * ETHER, 80 * TokenUnit>>,
      <<2 * ETHER, TokenUnit>>, <<4 * ETHER, TokenUnit>>,
      <<BNDiv(ETHER, 10), BNDiv(TokenUnit, 10)>>,
      <<BNDiv(ETHER, 10), BNDiv(3 * TokenUnit, 40)>>,
      <<0, TokenUnit>>, <<BNDiv(ETHER, 100), TokenUnit>> }

\* the answer of getReservesByPairs for market m: reserve0, reserve1 in the
\* order of the pair's tokens
OrderedBalances(m, wt) ==
    IF allMarketPairs[m].tokens[1] = WETH_ADDRESS THEN <<wt[1], wt[2]>> ELSE <<wt[2], wt[1]>>

\* a market outside the index is read by no scan: it keeps its start-up reserves
ScanReserves ==
    { [m \in Markets |->
          IF m \in IndexMarkets THEN OrderedBalances(m, f[m])
          ELSE ChainReserves[InitialChainState][m]] :
      f \in [IndexMarkets -> ScanBalances] }

\* the map of lines 153-184 throws when a probe quote divides by zero
ScanThrows(res, index) ==
    \E k \in DOMAIN index.keys :
        \E j \in DOMAIN index.markets[index.keys[k]] :
            LET tokenAddress == index.keys[k]
                m == index.markets[tokenAddress][j]
            IN  \/ getAmountInThrows(getBalance(res, m, tokenAddress),
                                     getBalance(res, m, WETH_ADDRESS), BNDiv(ETHER, 100))
                \/ getAmountOutThrows(getBalance(res, m, WETH_ADDRESS),
                                      getBalance(res, m, tokenAddress), BNDiv(ETHER, 100))

IndexKeys(index) == {index.keys[k] : k \in DOMAIN index.keys}

InitScan ==
    /\ tokenBalances = [m \in Markets |->
                          [bal |-> ChainReserves[InitialChainState][m], batch |-> 0]]
    /\ lastBlock = 0
    /\ pc = [b \in Blocks |-> "idle"]
    /\ scanBatches = [b \in Blocks |-> {}]
    /\ opps = [b \in Blocks |-> << >>]
    /\ idx = [b \in Blocks |-> 0]
    /\ built = [b \in Blocks |-> NoTransaction]
    /\ gateLog = [b \in Blocks |-> << >>]
    /\ simCall = [b \in Blocks |-> << >>]
    /\ sends = [b \in Blocks |-> << >>]
    /\ err = [b \in Blocks |-> "none"]
    /\ pricerIn = [reserveIn |-> 0, reserveOut |-> 0, amount |-> 0, amount2 |-> 0]
    /\ pricerOut = NoQuote
    /\ scanRes \in ScanReserves
    /\ scanOut = NoScan
    /\ rewardIn = [profit |-> 0, minerRewardPercentage |-> MINER_REWARD_PERCENTAGE]
    /\ rewardOut = NoReward
    /\ marketIn = NoArguments
    /\ marketOut = NoCall
    /\ searchRes = ChainReserves[InitialChainState]
    /\ searchOut = NoSearch

\* one call of evaluateMarkets, from its first line to its return or its throw
Scan ==
    /\ ~scanOut.done
    /\ scanOut' =
          IF ScanThrows(scanRes, marketsByToken)
          THEN [done |-> TRUE, threw |-> TRUE, crossed |-> << >>, best |-> << >>,
                list |-> << >>]
          ELSE [done |-> TRUE, threw |-> FALSE,
                crossed |-> [t \in IndexKeys(marketsByToken) |->
                               CrossedFrom(scanRes, marketsByToken.markets[t], t, 0)],
                best |-> [t \in IndexKeys(marketsByToken) |->
                            getBestCrossedMarket(scanRes,
                                CrossedFrom(scanRes, marketsByToken.markets[t], t, 0), t)],
                list |-> evaluateMarkets(scanRes, marketsByToken)]
    /\ UNCHANGED <<scanRes, sysVars, pricerVars, rewardVars, marketVars, searchVars>>

NextScan == Scan

SpecScan == InitScan /\ [][NextScan]_vars

(***************************************************************************)
(* The block-producer payment on its own: line 249 for any profit of a     *)
(* listed opportunity and any reward percentage from 0 to 100.             *)
(***************************************************************************)
\* the values of minerRewardPercentage: index.ts:23 parses it from the
\* environment, a percentage
RewardPercentages == 0..100

\* a listed opportunity's profit is above ETHER / 1000
RewardInputs ==
    [profit : (BNDiv(ETHER, 1000) + 1)..(2 * ETHER),
     minerRewardPercentage : RewardPercentages]

\* the handlers, the pricer and the scan as they are when nothing has run
HandlersAtRest ==
    /\ tokenBalances = [m \in Markets |->
                          [bal |-> ChainReserves[InitialChainState][m], batch |-> 0]]
    /\ lastBlock = 0
    /\ pc = [b \in Blocks |-> "idle"]
    /\ scanBatches = [b \in Blocks |-> {}]
    /\ opps = [b \in Blocks |-> << >>]
    /\ idx = [b \in Blocks |-> 0]
    /\ built = [b \in Blocks |-> NoTransaction]
    /\ gateLog = [b \in Blocks |-> << >>]
    /\ simCall = [b \in Blocks |-> << >>]
    /\ sends = [b \in Blocks |-> << >>]
    /\ err = [b \in Blocks |-> "none"]
    /\ pricerIn = [reserveIn |-> 0, reserveOut |-> 0, amount |-> 0, amount2 |-> 0]
    /\ pricerOut = NoQuote
    /\ scanRes = ChainReserves[InitialChainState]
    /\ scanOut = NoScan

InitReward ==
    /\ HandlersAtRest
    /\ rewardIn \in RewardInputs
    /\ rewardOut = NoReward
    /\ marketIn = NoArguments
    /\ marketOut = NoCall
    /\ searchRes = ChainReserves[InitialChainState]
    /\ searchOut = NoSearch

\* line 249
Reward ==
    /\ ~rewardOut.done
    /\ rewardOut' = [done |-> TRUE,
                     minerReward |-> minerReward(rewardIn.profit,
                                                 rewardIn.minerRewardPercentage)]
    /\ UNCHANGED <<rewardIn, sysVars, pricerVars, scanVars, marketVars, searchVars>>

NextReward == Reward

SpecReward == InitReward /\ [][NextReward]_vars

(***************************************************************************)
(* A market's methods on their own: one call of a quote or of a call       *)
(* construction on a market holding its start-up reserves, for any asset   *)
(* and any small amount.                                                   *)
(***************************************************************************)
\* the assets a method can be given: WETH and the two indexed assets, of which a
\* market holds two
Tokens == {WETH_ADDRESS} \cup {TokenOf(m) : m \in Markets}

\* the amounts a method can be given: negative, zero, positive
MarketAmounts == {0 - 1, 0, 1, BNDiv(ETHER, 100) + 1, ETHER}

MarketArguments ==
    [market : Markets, tokenIn : Tokens, tokenOut : Tokens, amount : MarketAmounts]

Returned(fn, value) == [fn |-> fn, threw |-> FALSE, value |-> <<value>>]

Threw(fn) == [fn |-> fn, threw |-> TRUE, value |-> << >>]

InitMarket ==
    /\ HandlersAtRest
    /\ rewardIn = [profit |-> 0, minerRewardPercentage |-> MINER_REWARD_PERCENTAGE]
    /\ rewardOut = NoReward
    /\ marketIn \in MarketArguments
    /\ marketOut = NoCall
    /\ searchRes = ChainReserves[InitialChainState]
    /\ searchOut = NoSearch

\* market.getTokensOut(tokenIn, tokenOut, amount)
CallGetTokensOut ==
    /\ marketOut = NoCall
    /\ marketOut' =
          IF getTokensOutThrows(Balances(tokenBalances), marketIn.market, marketIn.tokenIn,
                                marketIn.tokenOut, marketIn.amount)
          THEN Threw("getTokensOut")
          ELSE Returned("getTokensOut",
                        getTokensOut(Balances(tokenBalances), marketIn.market,
                                     marketIn.tokenIn, marketIn.tokenOut, marketIn.amount))
    /\ UNCHANGED <<marketIn, sysVars, pricerVars, scanVars, rewardVars, searchVars>>

\* market.getTokensIn(tokenIn, tokenOut, amount)
CallGetTokensIn ==
    /\ marketOut = NoCall
    /\ marketOut' =
          IF getTokensInThrows(Balances(tokenBalances), marketIn.market, marketIn.tokenIn,
                               marketIn.tokenOut, marketIn.amount)
          THEN Threw("getTokensIn")
          ELSE Returned("getTokensIn",
                        getTokensIn(Balances(tokenBalances), marketIn.market,
                                    marketIn.tokenIn, marketIn.tokenOut, marketIn.amount))
    /\ UNCHANGED <<marketIn, sysVars, pricerVars, scanVars, rewardVars, searchVars>>

\* market.sellTokens(tokenIn, amount, recipient), the recipient being the
\* bundle executor
CallSellTokens ==
    /\ marketOut = NoCall
    /\ marketOut' =
          IF \/ sellTokensThrows(marketIn.market, marketIn.tokenIn)
             \/ \E tokenOut \in Tokens \ {marketIn.tokenIn} :
                   /\ HasToken(marketIn.market, tokenOut)
                   /\ getTokensOutThrows(Balances(tokenBalances), marketIn.market,
                                         marketIn.tokenIn, tokenOut, marketIn.amount)
          THEN Threw("sellTokens")
          ELSE Returned("sellTokens",
                        sellTokens(Balances(tokenBalances), marketIn.market,
                                   marketIn.tokenIn, marketIn.amount,
                                   BUNDLE_EXECUTOR_ADDRESS))
    /\ UNCHANGED <<marketIn, sysVars, pricerVars, scanVars, rewardVars, searchVars>>

\* market.prepareReceive(tokenIn, amount)
CallPrepareReceive ==
    /\ marketOut = NoCall
    /\ marketOut' =
          IF prepareReceiveThrows(marketIn.market, marketIn.tokenIn, marketIn.amount)
          THEN Threw("prepareReceive")
          ELSE Returned("prepareReceive",
                        prepareReceive(marketIn.market, marketIn.tokenIn, marketIn.amount))
    /\ UNCHANGED <<marketIn, sysVars, pricerVars, scanVars, rewardVars, searchVars>>

NextMarket ==
    \/ CallGetTokensOut
    \/ CallGetTokensIn
    \/ CallSellTokens
    \/ CallPrepareReceive

SpecMarket == InitMarket /\ [][NextMarket]_vars

(***************************************************************************)
(* getBestCrossedMarket on its own, for an asset with three markets above  *)
(* the liquidity floor: the start-up refresh read searchRes, the index was *)
(* built from it, a block's refresh stored the same reserves and           *)
(* evaluateMarkets scans.                                                  *)
(***************************************************************************)
\* the asset with three markets
SearchAsset == TokenOf(Len(allMarketPairs))

\* what a market of that asset holds, as <<WETH, token>>: pools of a hundred
\* units at four prices, pools of a few units at two prices, a pool between
SearchBalances ==
    { <<100 * ETHER, 100 * TokenUnit>>, <<100 * ETHER, 80 * TokenUnit>>,
      <<100 * ETHER, 125 * TokenUnit>>, <<100 * ETHER, 200 * TokenUnit>>,
      <<4 * ETHER, 4 * TokenUnit>>,
      <<4 * ETHER, 3 * TokenUnit>>, <<20 * ETHER, 30 * TokenUnit>> }

SearchReserves ==
    { [m \in Markets |->
          IF TokenOf(m) = SearchAsset THEN OrderedBalances(m, f[m])
          ELSE ChainReserves[InitialChainState][m]] :
      f \in [{m \in Markets : TokenOf(m) = SearchAsset} -> SearchBalances] }

Reverse(xs) == [i \in 1..Len(xs) |-> xs[Len(xs) + 1 - i]]

InitSearch ==
    /\ HandlersAtRest
    /\ rewardIn = [profit |-> 0, minerRewardPercentage |-> MINER_REWARD_PERCENTAGE]
    /\ rewardOut = NoReward
    /\ marketIn = NoArguments
    /\ marketOut = NoCall
    /\ searchRes \in SearchReserves
    /\ searchOut = NoSearch

\* lines 194-208 of evaluateMarkets for the asset: the crossed pairs are
\* collected and getBestCrossedMarket is called on them; then it is called on
\* each pair alone and on the pairs in the opposite order
Search ==
    /\ ~searchOut.done
    /\ searchOut' =
          LET index == getUniswapMarketsByToken(searchRes)
              crossedMarkets == CrossedFrom(searchRes, index.markets[SearchAsset],
                                            SearchAsset, 0)
          IN  IF ScanThrows(searchRes, index)
              THEN [NoSearch EXCEPT !.done = TRUE, !.threw = TRUE]
              ELSE [done |-> TRUE, threw |-> FALSE,
                    crossed |-> crossedMarkets,
                    best |-> getBestCrossedMarket(searchRes, crossedMarkets, SearchAsset),
                    alone |-> [i \in DOMAIN crossedMarkets |->
                                 getBestCrossedMarket(searchRes, <<crossedMarkets[i]>>,
                                                      SearchAsset)],
                    reversed |-> getBestCrossedMarket(searchRes, Reverse(crossedMarkets),
                                                      SearchAsset),
                    runs |-> [i \in DOMAIN crossedMarkets |->
                                LadderRun(searchRes, crossedMarkets, SearchAsset, i)]]
    /\ UNCHANGED <<searchRes, sysVars, pricerVars, scanVars, rewardVars, marketVars>>

NextSearch == Search

SpecSearch == InitSearch /\ [][NextSearch]_vars

(***************************************************************************)
(* The specifications of the searcher.                                     *)
(***************************************************************************)
\* every handler, every interleaving
Next ==
    \E b \in Blocks :
        \/ BlockEvent(b)
        \/ \E s \in ChainStates : ReservesReturn(b, s)
        \/ ReservesFail(b)
        \/ ScanAndTake(b)
        \/ \E g \in GasEstimates : EstimateReturn(b, g)
        \/ EstimateFail(b)
        \/ SignReturn(b)
        \/ SignFail(b)
        \/ \E r \in SimulationAnswers : SimulateReturn(b, r)
        \/ SimulateFail(b)
        \/ \E k \in 1..2 : SendReturn(b, k)
        \/ \E k \in 1..2 : SendFail(b, k)

Spec == Init /\ [][Next]_vars

\* one handler alone, from its block event to the end of its cycle: the first
\* block the provider emits, and no later one
FirstBlockEvent(b) ==
    /\ \A c \in Blocks : pc[c] = "idle"
    /\ BlockEvent(b)

NextTake ==
    \E b \in Blocks :
        \/ FirstBlockEvent(b)
        \/ \E s \in ChainStates : ReservesReturn(b, s)
        \/ ReservesFail(b)
        \/ ScanAndTake(b)
        \/ \E g \in GasEstimates : EstimateReturn(b, g)
        \/ EstimateFail(b)
        \/ SignReturn(b)
        \/ SignFail(b)
        \/ \E r \in SimulationAnswers : SimulateReturn(b, r)
        \/ SimulateFail(b)
        \/ \E k \in 1..2 : SendReturn(b, k)
        \/ \E k \in 1..2 : SendFail(b, k)

SpecTake == Init /\ [][NextTake]_vars

\* every handler, every interleaving, up to the first await of
\* takeCrossedMarkets: the steps after it write neither tokenBalances nor
\* scanBatches
NextRefresh ==
    \E b \in Blocks :
        \/ BlockEvent(b)
        \/ \E s \in ChainStates : ReservesReturn(b, s)
        \/ ReservesFail(b)
        \/ ScanAndTake(b)

SpecRefresh == Init /\ [][NextRefresh]_vars

(***************************************************************************)
(* Properties of takeCrossedMarkets.                                       *)
(***************************************************************************)
\* what the log says of a candidate's gates
EstimatePassed(entry) == ~entry.estThrew /\ entry.estimateGas <= GasCeiling

SimulationPassed(entry) ==
    entry.sim.asked /\ ~entry.sim.threw /\ ~entry.sim.error /\ ~entry.sim.firstRevert

RejectedAtGate(entry) ==
    \/ entry.estThrew
    \/ entry.estimateGas > GasCeiling
    \/ (entry.sim.asked /\ ~entry.sim.threw /\ (entry.sim.error \/ entry.sim.firstRevert))

SubmittedCands(b) == {sends[b][k].cand : k \in DOMAIN sends[b]}

\* C1: every sendRawBundle request of a cycle is for an opportunity whose gas
\* estimate succeeded in that cycle with a value not above the ceiling and whose
\* simulation answered with neither an error nor a first revert; an opportunity
\* rejected at a gate has no sendRawBundle request.
C1_SubmitOnlyAfterGates ==
    \A b \in Blocks :
        /\ \A k \in DOMAIN sends[b] :
              \E j \in DOMAIN gateLog[b] :
                  /\ gateLog[b][j].cand = sends[b][k].cand
                  /\ EstimatePassed(gateLog[b][j])
                  /\ SimulationPassed(gateLog[b][j])
        /\ \A j \in DOMAIN gateLog[b] :
              RejectedAtGate(gateLog[b][j]) => gateLog[b][j].cand \notin SubmittedCands(b)

\* a second candidate is submitted at the ceiling after the first was rejected
C1_Witness ==
    \E b \in Blocks :
        /\ sends[b] # << >>
        /\ Len(gateLog[b]) = 2
        /\ RejectedAtGate(gateLog[b][1])
        /\ gateLog[b][2].estimateGas = GasCeiling

\* C2: in one call at most one opportunity is submitted; it is the first of the
\* list that passed both gates (every one before it was tried in list order and
\* rejected at a gate), and nothing after it is estimated, simulated or
\* submitted.
C2_FirstSurvivorOnly ==
    \A b \in Blocks :
        /\ Cardinality(SubmittedCands(b)) <= 1
        /\ \A j \in DOMAIN gateLog[b] : gateLog[b][j].cand = j
        /\ \A c \in SubmittedCands(b) :
              /\ Len(gateLog[b]) = c
              /\ idx[b] = c
              /\ simCall[b][1].cand = c
              /\ \A j \in 1..(c - 1) : RejectedAtGate(gateLog[b][j])
              /\ EstimatePassed(gateLog[b][c]) /\ SimulationPassed(gateLog[b][c])

\* the first of two candidates is submitted and the cycle has ended: the second
\* was left alone
C2_Witness ==
    \E b \in Blocks :
        /\ pc[b] = "done"
        /\ Len(opps[b]) = 2
        /\ SubmittedCands(b) = {1}

\* C3: takeCrossedMarkets returns normally only with an opportunity submitted;
\* when every candidate was rejected at a gate nothing is submitted and the call
\* has thrown its own error.
C3_NoSilentSuccess ==
    \A b \in Blocks :
        /\ pc[b] = "done" =>
              /\ sends[b] # << >>
              /\ \A k \in DOMAIN sends[b] : sends[b][k].status = "ok"
        /\ (/\ opps[b] # << >>
            /\ Len(gateLog[b]) = Len(opps[b])
            /\ \A j \in DOMAIN gateLog[b] : RejectedAtGate(gateLog[b][j]))
           => /\ sends[b] = << >>
              /\ pc[b] = "failed"
              /\ err[b] = "No arbitrage submitted to relay"

\* a single candidate whose simulation reports a first revert
C3_Witness ==
    \E b \in Blocks :
        /\ Len(opps[b]) = 1
        /\ Len(gateLog[b]) = 1
        /\ gateLog[b][1].sim.firstRevert
        /\ pc[b] = "failed"

\* C4: takeCrossedMarkets ends in failure only when every candidate of the list
\* has been tried and rejected at a gate.
C4_FailureOnlyOnExhaustion ==
    \A b \in Blocks :
        pc[b] = "failed" =>
            /\ Len(gateLog[b]) = Len(opps[b])
            /\ \A j \in DOMAIN gateLog[b] : RejectedAtGate(gateLog[b][j])

\* C5: once the simulation of a cycle at block b has passed, the signed bundle
\* that was simulated has been sent exactly twice, for b+1 and for b+2, and both
\* requests stay issued whatever happens to the other.
C5_TwoIndependentSubmissions ==
    \A b \in Blocks :
        (gateLog[b] # << >> /\ SimulationPassed(gateLog[b][Len(gateLog[b])])) =>
            /\ Len(sends[b]) = 2
            /\ sends[b][1].targetBlockNumber = b + 1
            /\ sends[b][2].targetBlockNumber = b + 2
            /\ \A k \in DOMAIN sends[b] :
                  /\ sends[b][k].signedBundle = simCall[b][1].signedBundle
                  /\ sends[b][k].cand = simCall[b][1].cand
                  /\ sends[b][k].status \in {"inflight", "ok", "fault"}
            /\ simCall[b][1].blockNumber = b + 1

\* one submission faulted and the other went through
C5_Witness ==
    \E b \in Blocks :
        /\ Len(sends[b]) = 2
        /\ sends[b][1].status = "fault"
        /\ sends[b][2].status = "ok"

\* C6: takeCrossedMarkets has not finished while a submission is in flight.
C6_EndsAfterBothSubmissions ==
    \A b \in Blocks :
        pc[b] \in {"done", "failed"} =>
            \A k \in DOMAIN sends[b] : sends[b][k].status # "inflight"

(***************************************************************************)
(* Properties of the block handlers.                                       *)
(***************************************************************************)
RefreshCompleted(b) == pc[b] \notin {"idle", "fetching", "refreshFailed"}

\* C7: every scan read, for all the markets of the index, reserves written by one
\* single completed refresh, and a handler scans only after its own refresh has
\* completed.
C7_ScanReadsOneBatch ==
    \A b \in Blocks :
        scanBatches[b] # {} =>
            /\ Cardinality(scanBatches[b]) = 1
            /\ \A t \in scanBatches[b] : t \in Blocks /\ RefreshCompleted(t)
            /\ RefreshCompleted(b)

\* two handlers have scanned, each after its own refresh, and the refresh of
\* the earlier block was the last to store
C7_Witness ==
    \E a, b \in Blocks :
        /\ a < b
        /\ scanBatches[a] = {a}
        /\ scanBatches[b] = {b}
        /\ \A m \in Markets : tokenBalances[m].batch = a

\* C8: no handler starts its reserve refresh, and none stores refreshed
\* reserves, while the takeCrossedMarkets of an earlier block is in flight.
C8_CyclesSerialized ==
    [][\A b \in Blocks :
          (pc[b] # pc'[b] /\ pc'[b] \in {"fetching", "refreshed"}) =>
              \A a \in Blocks : a < b => ~TakeInFlight(a)]_vars

\* C9: for every bundle built, the amount requested out of the buy-from market
\* is the intermediate amount sold into the sell-to market, and the base-asset
\* amount requested out of the sell-to market is the opportunity's volume plus
\* its profit.
AmountOut(call) == call.amount0Out + call.amount1Out

C9_NoDrift ==
    \A b \in Blocks :
        built[b] # NoTransaction =>
            /\ AmountOut(built[b][1].payloads[1]) = built[b][1].inter
            /\ AmountOut(built[b][1].payloads[2]) =
                  opps[b][idx[b]].volume + opps[b][idx[b]].profit

(***************************************************************************)
(* Properties of the pricer.                                               *)
(***************************************************************************)
\* C10: getAmountOut is the floor of amountIn*997*reserveOut over
\* reserveIn*1000 + amountIn*997, for non-negative arguments with a non-zero
\* denominator: q with q*den <= num < (q+1)*den.
C10_GetAmountOutIsFloor ==
    LET num == pricerIn.amount * 997 * pricerIn.reserveOut
        den == pricerIn.reserveIn * 1000 + pricerIn.amount * 997
    IN  (pricerOut.fn = "getAmountOut" /\ den # 0) =>
            /\ ~pricerOut.threw
            /\ pricerOut.value >= 0
            /\ pricerOut.value * den <= num
            /\ num < (pricerOut.value + 1) * den

\* a quote whose division leaves a remainder
C10_Witness ==
    LET num == pricerIn.amount * 997 * pricerIn.reserveOut
        den == pricerIn.reserveIn * 1000 + pricerIn.amount * 997
    IN  /\ pricerOut.fn = "getAmountOut"
        /\ ~pricerOut.threw
        /\ pricerOut.value > 0
        /\ pricerOut.value * den < num

\* C11: for non-negative arguments with amountOut < reserveOut, getAmountIn is
\* one more than the floor of reserveIn*amountOut*1000 over
\* (reserveOut - amountOut)*997: value = q + 1 with q*den <= num < (q+1)*den.
C11_GetAmountInIsFloorPlusOne ==
    LET num == pricerIn.reserveIn * pricerIn.amount * 1000
        den == (pricerIn.reserveOut - pricerIn.amount) * 997
        q == pricerOut.value - 1
    IN  (pricerOut.fn = "getAmountIn" /\ pricerIn.amount < pricerIn.reserveOut) =>
            /\ ~pricerOut.threw
            /\ q >= 0
            /\ q * den <= num
            /\ num < (q + 1) * den

\* a quote whose division leaves a remainder
C11_Witness ==
    LET num == pricerIn.reserveIn * pricerIn.amount * 1000
        den == (pricerIn.reserveOut - pricerIn.amount) * 997
    IN  /\ pricerOut.fn = "getAmountIn"
        /\ pricerIn.amount < pricerIn.reserveOut
        /\ ~pricerOut.threw
        /\ pricerOut.value > 1
        /\ (pricerOut.value - 1) * den < num

\* C12: getAmountIn throws, and returns no amount, whenever amountOut is equal to
\* or greater than reserveOut.
C12_GetAmountInFails ==
    (pricerOut.fn = "getAmountIn" /\ pricerIn.amount >= pricerIn.reserveOut) =>
        pricerOut.threw

\* C13 as stated: for positive reserves, getAmountIn of the amount getAmountOut
\* quoted for amountIn is at least amountIn.
C13_RoundTripAtLeastAmountIn ==
    (/\ pricerOut.fn = "getAmountOut;getAmountIn"
     /\ pricerIn.reserveIn > 0
     /\ pricerIn.reserveOut > 0) =>
        /\ ~pricerOut.threw
        /\ pricerOut.value >= pricerIn.amount

\* C13 amended: for positive reserves, getAmountIn of the amount getAmountOut
\* quoted for amountIn does not throw, is at least 1 and is at most amountIn + 1.
C13_RoundTripAtMostOneAbove ==
    (/\ pricerOut.fn = "getAmountOut;getAmountIn"
     /\ pricerIn.reserveIn > 0
     /\ pricerIn.reserveOut > 0) =>
        /\ ~pricerOut.threw
        /\ pricerOut.value >= 1
        /\ pricerOut.value <= pricerIn.amount + 1

\* a round trip through a non-zero output that gives amountIn back
C13_Witness ==
    /\ pricerOut.fn = "getAmountOut;getAmountIn"
    /\ pricerIn.reserveIn > 0
    /\ pricerIn.reserveOut > 0
    /\ pricerOut.first > 0
    /\ pricerIn.amount > 1
    /\ pricerOut.value = pricerIn.amount

\* C14: for positive reserves and 0 < amountOut < reserveOut, getAmountOut of the
\* input getAmountIn quoted for amountOut is at least amountOut.
C14_QuotedInputBuysOutput ==
    (/\ pricerOut.fn = "getAmountIn;getAmountOut"
     /\ pricerIn.reserveIn > 0
     /\ pricerIn.reserveOut > 0
     /\ 0 < pricerIn.amount
     /\ pricerIn.amount < pricerIn.reserveOut) =>
        /\ ~pricerOut.threw
        /\ pricerOut.value >= pricerIn.amount

\* the quoted input buys exactly the requested output, one unit less of input
\* would not
C14_Witness ==
    /\ pricerOut.fn = "getAmountIn;getAmountOut"
    /\ pricerIn.reserveIn > 0
    /\ 1 < pricerIn.amount
    /\ pricerIn.amount < pricerIn.reserveOut
    /\ ~pricerOut.threw
    /\ pricerOut.value = pricerIn.amount
    /\ getAmountOut(pricerIn.reserveIn, pricerIn.reserveOut, pricerOut.first - 1)
          < pricerIn.amount

\* C15 as stated: for any reserves, two quotes of getAmountOut are ordered as
\* their amounts are, and each is strictly less than reserveOut.
C15_MonotoneAndBelowReserve ==
    (pricerOut.fn = "getAmountOut;getAmountOut" /\ ~pricerOut.threw) =>
        /\ pricerIn.amount <= pricerIn.amount2 => pricerOut.first <= pricerOut.value
        /\ pricerOut.first < pricerIn.reserveOut
        /\ pricerOut.value < pricerIn.reserveOut

\* C15 amended: for positive reserveIn and reserveOut, getAmountOut does not
\* throw, two quotes are ordered as their amounts are, and each is strictly less
\* than reserveOut.
C15_MonotoneAndBelowPositiveReserve ==
    (/\ pricerOut.fn = "getAmountOut;getAmountOut"
     /\ pricerIn.reserveIn > 0
     /\ pricerIn.reserveOut > 0) =>
        /\ ~pricerOut.threw
        /\ pricerIn.amount <= pricerIn.amount2 => pricerOut.first <= pricerOut.value
        /\ pricerOut.first < pricerIn.reserveOut
        /\ pricerOut.value < pricerIn.reserveOut

\* a larger amount quoted strictly more, one short of the whole reserve
C15_Witness ==
    /\ pricerOut.fn = "getAmountOut;getAmountOut"
    /\ pricerIn.reserveIn > 0
    /\ pricerIn.amount < pricerIn.amount2
    /\ pricerOut.first < pricerOut.value
    /\ pricerOut.value = pricerIn.reserveOut - 1

(***************************************************************************)
(* Properties of evaluateMarkets.                                          *)
(***************************************************************************)
Probe == BNDiv(ETHER, 100)

MarketsOf(t) == {marketsByToken.markets[t][j] : j \in DOMAIN marketsByToken.markets[t]}

Scanned == scanOut.done /\ ~scanOut.threw

\* the crossed pairs of asset t as <<sell-to, buy-from>>
EmittedPairs(t) == {scanOut.crossed[t][i] : i \in DOMAIN scanOut.crossed[t]}

\* the two quotes of market m at the probe amount: the amount of t that
\* getAmountOut gives for the probe amount of WETH, the amount of t that
\* getAmountIn asks for the probe amount of WETH
QuoteOutputAtProbe(m, t) ==
    getAmountOut(getBalance(scanRes, m, WETH_ADDRESS), getBalance(scanRes, m, t), Probe)

QuoteInputAtProbe(m, t) ==
    getAmountIn(getBalance(scanRes, m, t), getBalance(scanRes, m, WETH_ADDRESS), Probe)

SameReserves(a, b, t) ==
    /\ getBalance(scanRes, a, WETH_ADDRESS) = getBalance(scanRes, b, WETH_ADDRESS)
    /\ getBalance(scanRes, a, t) = getBalance(scanRes, b, t)

\* C16 as stated: the pairs emitted for an asset as (sell-to, buy-from) are
\* exactly the ordered pairs of its markets in which the sell-to market's
\* quoteOutput at the probe amount is strictly greater than the buy-from
\* market's quoteInput at the probe amount.
C16_CrossedWhenSellToOutputAboveBuyFromInput ==
    Scanned =>
        \A t \in IndexKeys(marketsByToken) :
            EmittedPairs(t) =
                { p \in MarketsOf(t) \X MarketsOf(t) :
                    QuoteOutputAtProbe(p[1], t) > QuoteInputAtProbe(p[2], t) }

\* C16 amended: the pairs emitted for an asset as (sell-to, buy-from) are, each
\* once, exactly the ordered pairs of its markets in which the buy-from market's
\* quoteOutput at the probe amount is strictly greater than the sell-to market's
\* quoteInput at the probe amount.
C16_CrossedWhenBuyFromOutputAboveSellToInput ==
    Scanned =>
        \A t \in IndexKeys(marketsByToken) :
            /\ EmittedPairs(t) =
                  { p \in MarketsOf(t) \X MarketsOf(t) :
                      QuoteOutputAtProbe(p[2], t) > QuoteInputAtProbe(p[1], t) }
            /\ Len(scanOut.crossed[t]) = Cardinality(EmittedPairs(t))

\* an asset with one ordered pair of distinct markets emitted and the opposite
\* pair, whose quotes are equal or the other way round, not emitted
C16_Witness ==
    /\ Scanned
    /\ \E t \in IndexKeys(marketsByToken) :
          \E a, b \in MarketsOf(t) :
              /\ a # b
              /\ getBalance(scanRes, a, WETH_ADDRESS) > Probe
              /\ getBalance(scanRes, b, WETH_ADDRESS) > Probe
              /\ EmittedPairs(t) = {<<a, b>>}
              /\ QuoteOutputAtProbe(a, t) <= QuoteInputAtProbe(b, t)

\* C17: no emitted pair has the same market as buy-from and sell-to, none has
\* two markets of identical reserves, and with identical reserves on all the
\* markets of every asset the opportunity list is empty.
C17_NoSelfOrIdenticalPair ==
    Scanned =>
        /\ \A t \in IndexKeys(marketsByToken) :
              \A p \in EmittedPairs(t) :
                  p[1] # p[2] /\ ~SameReserves(p[1], p[2], t)
        /\ (\A t \in IndexKeys(marketsByToken) :
               \A a, b \in MarketsOf(t) : SameReserves(a, b, t))
           => scanOut.list = << >>

\* C18: with market A holding 100 WETH and 100 units of the asset and market B
\* holding 100 WETH and 80 units, the scan emits for the asset the one pair
\* (sell-to B, buy-from A), and getBestCrossedMarket returns for it a strictly
\* positive profit at a volume between the first and the last TEST_VOLUMES; the
\* opportunity is in the list returned.
C18_ScenarioHundredEighty ==
    Scanned =>
        \A t \in IndexKeys(marketsByToken) :
            \A A, B \in MarketsOf(t) :
                (/\ getBalance(scanRes, A, WETH_ADDRESS) = 100 * ETHER
                 /\ getBalance(scanRes, A, t) = 100 * TokenUnit
                 /\ getBalance(scanRes, B, WETH_ADDRESS) = 100 * ETHER
                 /\ getBalance(scanRes, B, t) = 80 * TokenUnit
                 /\ MarketsOf(t) = {A, B}) =>
                    /\ scanOut.crossed[t] = << <<B, A>> >>
                    /\ scanOut.best[t] # << >>
                    /\ scanOut.best[t][1].sellToMarket = B
                    /\ scanOut.best[t][1].buyFromMarket = A
                    /\ scanOut.best[t][1].profit > 0
                    /\ scanOut.best[t][1].volume >= TEST_VOLUMES[1]
                    /\ scanOut.best[t][1].volume <= TEST_VOLUMES[Len(TEST_VOLUMES)]
                    /\ \E i \in DOMAIN scanOut.list : scanOut.list[i] = scanOut.best[t][1]

\* the scenario on the first asset's two markets, scanned
C18_Witness ==
    /\ Scanned
    /\ \E A, B \in MarketsOf(marketsByToken.keys[1]) :
          /\ scanRes[A] = OrderedBalances(A, <<100 * ETHER, 100 * TokenUnit>>)
          /\ scanRes[B] = OrderedBalances(B, <<100 * ETHER, 80 * TokenUnit>>)
    /\ scanOut.best[marketsByToken.keys[1]] # << >>

\* C19: every opportunity of the list has a profit strictly above ETHER/1000,
\* which is the round-trip profit of its volume on its two markets; an asset
\* whose best profit is at or below the threshold has no opportunity in the list.
C19_AboveThreshold ==
    Scanned =>
        /\ \A i \in DOMAIN scanOut.list :
              /\ scanOut.list[i].profit > BNDiv(ETHER, 1000)
              /\ scanOut.list[i].profit =
                    RoundTripProfit(scanRes, scanOut.list[i].sellToMarket,
                                    scanOut.list[i].buyFromMarket,
                                    scanOut.list[i].tokenAddress, scanOut.list[i].volume)
        /\ \A t \in IndexKeys(marketsByToken) :
              (scanOut.best[t] # << >> /\ scanOut.best[t][1].profit <= BNDiv(ETHER, 1000)) =>
                  \A i \in DOMAIN scanOut.list : scanOut.list[i].tokenAddress # t

\* one asset is in the list, the other's best profit is exactly the threshold
C19_Witness ==
    /\ Scanned
    /\ Len(scanOut.list) = 1
    /\ \E t \in IndexKeys(marketsByToken) :
          /\ scanOut.best[t] # << >>
          /\ scanOut.best[t][1].profit = BNDiv(ETHER, 1000)

\* C20: the list returned has no inversion of profit and at most one
\* opportunity per asset.
C20_SortedOnePerAsset ==
    Scanned =>
        \A i, j \in DOMAIN scanOut.list :
            i < j =>
                /\ scanOut.list[i].profit >= scanOut.list[j].profit
                /\ scanOut.list[i].tokenAddress # scanOut.list[j].tokenAddress

\* the asset scanned last has the larger profit and comes first
C20_Witness ==
    /\ Scanned
    /\ Len(scanOut.list) = 2
    /\ scanOut.list[1].tokenAddress = marketsByToken.keys[2]
    /\ scanOut.list[2].tokenAddress = marketsByToken.keys[1]
    /\ scanOut.list[1].profit > scanOut.list[2].profit

(***************************************************************************)
(* Properties of the invocation built for an opportunity.                  *)
(***************************************************************************)
\* what a swap call sends out of market m, of the asset tokenAddress
AmountOutOf(call, m, tokenAddress) ==
    IF allMarketPairs[m].tokens[1] = tokenAddress THEN call.amount0Out ELSE call.amount1Out

\* the opportunity handler b is building for, or built for last
Candidate(b) == opps[b][idx[b]]

\* C21: every invocation takeCrossedMarkets builds has as many payloads as
\* targets, two of each; the targets are the buy-from market, then the sell-to
\* market, and the payloads are in the same order: the first is the buy-from
\* market's swap, which sends out the asset (no WETH) to the sell-to market, the
\* second is the sell-to market's swap, which sends out WETH (none of the asset)
\* to the bundle executor.
C21_TargetsAndPayloadsAligned ==
    \A b \in Blocks :
        built[b] # NoTransaction =>
            LET t == built[b][1]
                o == Candidate(b)
            IN  /\ Len(t.targets) = Len(t.payloads)
                /\ t.targets = <<o.buyFromMarket, o.sellToMarket>>
                /\ t.payloads[1].to = o.sellToMarket
                /\ AmountOutOf(t.payloads[1], t.targets[1], WETH_ADDRESS) = 0
                /\ AmountOutOf(t.payloads[1], t.targets[1], o.tokenAddress) = t.inter
                /\ t.payloads[Len(t.payloads)].to = BUNDLE_EXECUTOR_ADDRESS
                /\ AmountOutOf(t.payloads[2], t.targets[2], o.tokenAddress) = 0
                /\ AmountOutOf(t.payloads[2], t.targets[2], WETH_ADDRESS) = o.volume + o.profit

\* an invocation is built for two different markets, and both of its swaps
\* send something out
C21_Witness ==
    \E b \in Blocks :
        /\ built[b] # NoTransaction
        /\ built[b][1].targets[1] # built[b][1].targets[2]
        /\ built[b][1].inter > 0
        /\ AmountOutOf(built[b][1].payloads[2], built[b][1].targets[2], WETH_ADDRESS) > 0

\* C22: the block-producer payment is floor(profit * rewardPercentage / 100),
\* and for every reward percentage from 0 to 100 it is at least 0 and at most
\* the opportunity's profit.
C22_RewardIsFlooredShare ==
    rewardOut.done =>
        /\ rewardOut.minerReward * 100 <= rewardIn.profit * rewardIn.minerRewardPercentage
        /\ rewardIn.profit * rewardIn.minerRewardPercentage < (rewardOut.minerReward + 1) * 100
        /\ 0 <= rewardOut.minerReward
        /\ rewardOut.minerReward <= rewardIn.profit

\* a payment that the division rounded down, at 99 percent; and the whole
\* profit is paid at 100 percent
C22_Witness ==
    /\ rewardOut.done
    /\ \/ /\ rewardIn.minerRewardPercentage = 99
          /\ (rewardIn.profit * rewardIn.minerRewardPercentage) % 100 # 0
          /\ rewardOut.minerReward = rewardIn.profit - 1
       \/ /\ rewardIn.minerRewardPercentage = 100
          /\ rewardOut.minerReward = rewardIn.profit

(***************************************************************************)
(* Properties of the market index.                                         *)
(***************************************************************************)
\* C23: whenever a handler's evaluateMarkets scans, every market of the index
\* holds more WETH than the liquidity floor of one ETHER, in the reserves the
\* scan reads, whatever the refreshes before it stored.
C23_IndexAboveFloorAtScan ==
    [][\A b \in Blocks :
          (pc[b] = "refreshed" /\ pc'[b] # "refreshed") =>
              \A m \in IndexMarkets :
                  getBalance(Balances(tokenBalances), m, WETH_ADDRESS) > ETHER]_vars

(***************************************************************************)
(* Properties of a market's methods.                                       *)
(***************************************************************************)
\* the call was given an asset the market does not hold; a quote is given two
\* assets, a call construction one
ForeignAsset ==
    \/ ~HasToken(marketIn.market, marketIn.tokenIn)
    \/ /\ marketOut.fn \in {"getTokensOut", "getTokensIn"}
       /\ ~HasToken(marketIn.market, marketIn.tokenOut)

\* C24: a call of getTokensOut, getTokensIn, sellTokens or prepareReceive that
\* is given an asset the market does not hold, or an amount that is not
\* positive, throws; and the market's reserves are what they were.
C24_InvalidInputFails ==
    marketOut.fn # "none" =>
        /\ (ForeignAsset \/ marketIn.amount <= 0) => marketOut.threw
        /\ Balances(tokenBalances) = ChainReserves[InitialChainState]

(***************************************************************************)
(* Properties of getBestCrossedMarket.                                     *)
(***************************************************************************)
Searched == searchOut.done /\ ~searchOut.threw

\* the largest profit getBestCrossedMarket returns for one crossed pair alone
BestAloneProfit ==
    CHOOSE p \in {searchOut.alone[i][1].profit : i \in DOMAIN searchOut.alone} :
        \A i \in DOMAIN searchOut.alone : searchOut.alone[i][1].profit <= p

\* C25: the profit of the opportunity getBestCrossedMarket returns for an asset
\* is the largest of the profits it returns for each crossed pair alone, and it
\* is the same with the pairs listed in the opposite order.
C25_BestOverAllPairs ==
    (Searched /\ searchOut.crossed # << >>) =>
        /\ searchOut.best[1].profit = BestAloneProfit
        /\ searchOut.reversed[1].profit = searchOut.best[1].profit

\* the opportunity record of a volume evaluated on a crossed pair
RecordOf(step, pair) ==
    [profit |-> step.profit, volume |-> step.size, tokenAddress |-> SearchAsset,
     buyFromMarket |-> pair[2], sellToMarket |-> pair[1]]

\* a ladder volume that earns less than the best so far
Failing(step) ==
    step.ladder /\ step.before # << >> /\ step.profit < step.before[1].profit

LadderLength(steps) == Cardinality({j \in DOMAIN steps : steps[j].ladder})

C27_VolumeWithinLadder ==
    Searched =>
        /\ \A k \in DOMAIN searchOut.best :
              /\ searchOut.best[k].volume >= ETHER \div 100
              /\ searchOut.best[k].volume <= 10 * ETHER
        /\ \A i \in DOMAIN searchOut.runs :
              \A k \in DOMAIN searchOut.runs[i].after :
                  /\ searchOut.runs[i].after[k].volume >= ETHER \div 100
                  /\ searchOut.runs[i].after[k].volume <= 10 * ETHER

\* with two crossed pairs, the opportunity returned has the largest volume of
\* the ladder
C27_Witness ==
    /\ Searched
    /\ Len(searchOut.crossed) >= 2
    /\ searchOut.best # << >>
    /\ searchOut.best[1].volume = 10 * ETHER

\* C28: the profit of the opportunity getBestCrossedMarket returns, and of the
\* best so far after each crossed pair, is what its sell-to market pays in WETH
\* for the asset its buy-from market gives for its volume of WETH, less that
\* volume, on the reserves the scan read.
C28_ProfitIsOwnRoundTrip ==
    Searched =>
        \A o \in {searchOut.best[k] : k \in DOMAIN searchOut.best}
               \cup UNION {{searchOut.runs[i].after[k] : k \in DOMAIN searchOut.runs[i].after} :
                           i \in DOMAIN searchOut.runs} :
            o.profit =
                getTokensOut(searchRes, o.sellToMarket, o.tokenAddress, WETH_ADDRESS,
                    getTokensOut(searchRes, o.buyFromMarket, WETH_ADDRESS, o.tokenAddress,
                                 o.volume)) - o.volume

\* the opportunity returned comes from the extra try of the second crossed
\* pair, made at a volume that is not on the ladder
C28_Witness ==
    /\ Searched
    /\ Len(searchOut.crossed) >= 2
    /\ searchOut.best[1].sellToMarket = searchOut.crossed[2][1]
    /\ searchOut.best[1].buyFromMarket = searchOut.crossed[2][2]
    /\ \A j \in DOMAIN TEST_VOLUMES : searchOut.best[1].volume # TEST_VOLUMES[j]
    /\ searchOut.best[1].profit > 0

(***************************************************************************)
(* Properties of the gates of takeCrossedMarkets.                          *)
(***************************************************************************)
\* the candidates handler b has asked an estimate for and got an answer
EstimatedCands(log) == {log[j].cand : j \in DOMAIN log}

\* C29: in one call of takeCrossedMarkets an estimate is asked only for an
\* opportunity no estimate was asked for before, and a simulation only for the
\* opportunity just estimated, which was not simulated before; and the step
\* that rejects an opportunity at a gate goes on to the next opportunity of the
\* list and asks its estimate, or leaves the loop if the list is at its end.
C29_NoRetryNextInOrder ==
    [][\A b \in Blocks :
          /\ (pc'[b] = "estimating" /\ (pc[b] # "estimating" \/ idx'[b] # idx[b])) =>
                /\ idx'[b] \notin EstimatedCands(gateLog'[b])
                /\ \A c \in EstimatedCands(gateLog'[b]) : c < idx'[b]
          /\ (pc'[b] = "simulating" /\ pc[b] # "simulating") =>
                /\ gateLog[b][Len(gateLog[b])].cand = simCall'[b][1].cand
                /\ ~gateLog[b][Len(gateLog[b])].sim.asked
                /\ Cardinality({j \in DOMAIN gateLog[b] :
                                   gateLog[b][j].cand = simCall'[b][1].cand}) = 1
          /\ (gateLog'[b] # gateLog[b] /\ RejectedAtGate(gateLog'[b][Len(gateLog'[b])])) =>
                /\ gateLog'[b][Len(gateLog'[b])].cand = idx[b]
                /\ idx'[b] = idx[b] + 1
                /\ IF idx[b] < Len(opps[b])
                   THEN /\ pc'[b] = "estimating"
                        /\ built'[b][1].volume = opps[b][idx[b] + 1].volume
                        /\ built'[b][1].targets = <<opps[b][idx[b] + 1].buyFromMarket,
                                                    opps[b][idx[b] + 1].sellToMarket>>
                   ELSE pc'[b] = "failed"]_vars

\* the first opportunity was rejected by its simulation and the estimate of
\* the second is being asked
C29_Witness ==
    \E b \in Blocks :
        /\ Len(gateLog[b]) = 1
        /\ gateLog[b][1].sim.firstRevert
        /\ pc[b] = "estimating"
        /\ idx[b] = 2

\* C30: the invocation given to simulate and to sendRawBundle has a gas limit
\* of exactly twice the estimate its opportunity got, and that estimate is at
\* most 1,400,000; an opportunity estimated at 1,400,000 goes on to be signed,
\* one estimated above is neither simulated nor submitted.
C30_GasLimitTwiceEstimate ==
    \A b \in Blocks :
        /\ \A c \in {simCall[b][k] : k \in DOMAIN simCall[b]}
                   \cup {[signedBundle |-> sends[b][k].signedBundle, cand |-> sends[b][k].cand,
                          blockNumber |-> b + 1] : k \in DOMAIN sends[b]} :
              \E j \in DOMAIN gateLog[b] :
                  /\ gateLog[b][j].cand = c.cand
                  /\ ~gateLog[b][j].estThrew
                  /\ gateLog[b][j].estimateGas <= 1400000
                  /\ c.signedBundle.gasLimit = 2 * gateLog[b][j].estimateGas
        /\ \A j \in DOMAIN gateLog[b] :
              /\ (~gateLog[b][j].estThrew /\ gateLog[b][j].estimateGas = 1400000) =>
                    \/ gateLog[b][j].sim.asked
                    \/ /\ j = Len(gateLog[b])
                       /\ idx[b] = gateLog[b][j].cand
                       /\ built[b][1].gasLimit = 2800000
                       /\ \/ pc[b] \in {"signing", "simulating"}
                          \/ pc[b] = "failed" /\ err[b] = "signBundle"
              /\ gateLog[b][j].estimateGas > 1400000 =>
                    /\ ~gateLog[b][j].sim.asked
                    /\ gateLog[b][j].cand \notin SubmittedCands(b)
                    /\ \A k \in DOMAIN simCall[b] : simCall[b][k].cand # gateLog[b][j].cand

\* an opportunity estimated at the ceiling is submitted with a gas limit of
\* 2,800,000 after the one before it was estimated one above the ceiling
C30_Witness ==
    \E b \in Blocks :
        /\ Len(gateLog[b]) = 2
        /\ gateLog[b][1].estimateGas = 1400001
        /\ gateLog[b][2].estimateGas = 1400000
        /\ sends[b] # << >>
        /\ sends[b][1].signedBundle.gasLimit = 2800000

====
